---------------------------- MODULE Spec2Model ----------------------------
(***************************************************************************)
(* A model of lss (src/src/main.rs): the column layout engine              *)
(* (format_with_terminal_width and its helpers) and the epoch-to-calendar  *)
(* formatter (Time).  Both are pure functions; each specification draws    *)
(* the inputs in Init and applies the function in one action.              *)
(*                                                                         *)
(* Strings are sequences of one-character strings (bytes).                 *)
(*                                                                         *)
(* usize values are kept as their residue modulo 2^64, written as the      *)
(* signed representative of small magnitude: a subtraction that wraps      *)
(* below zero gives a negative representative r, which stands for 2^64+r.  *)
(* With overflow checks (the debug profile) such an operation panics;      *)
(* without them (the release profile) it wraps.  Both are outcomes a build *)
(* can produce, so the actions choose overflow_checks nondeterministically.*)
(***************************************************************************)
EXTENDS Integers, Sequences, FiniteSets, TLC

VARIABLES
    names,       \* Vec<String> handed to format_with_terminal_width
    term_cols,   \* the --width argument
    lpc,         \* position of the layout run: "idle" | "start" | "done"
    outcome,     \* "none" | "empty" | "joined" | "grid" | "panic"
    rows,        \* the row count returned by calculate_optimal_layout
    col_widths,  \* the vector returned by calculate_column_widths
    output       \* the String returned by format_with_terminal_width

lvars == <<names, term_cols, lpc, outcome, rows, col_widths, output>>

VARIABLES
    secs,        \* Time.duration_since_epoch.as_secs(): u64, four 16-bit limbs, low first
    offset,      \* Time.offset: i64
    tpc,         \* position of the Time call: "idle" | "start" | "done" | "weekday"
    date,        \* (year, month, day) returned by to_calendar_date
    time_parts,  \* (hours, minutes, seconds) returned by to_time_parts
    formatted,   \* the String returned by Time::format
    tpanic,      \* whether the call panicked
    day_of_week  \* the u32 returned by _get_day_of_week, two 16-bit limbs, low first

tvars == <<secs, offset, tpc, date, time_parts, formatted, tpanic, day_of_week>>

vars == <<lvars, tvars>>

---------------------------------------------------------------------------
(* Bounds of the model *)
MaxEntries == 4
MaxNameLen == 2
MaxWidth == 10

---------------------------------------------------------------------------
(* Strings *)

ESC == "\\x1b"
NL == "\n"

Spaces(n) == [i \in 1..n |-> " "]

IsWhitespace(c) == c \in {" ", NL}

RECURSIVE trim_end(_)
trim_end(s) ==
    IF s # <<>> /\ IsWhitespace(s[Len(s)])
    THEN trim_end(SubSeq(s, 1, Len(s) - 1))
    ELSE s

RECURSIVE join(_, _)
join(strs, sep) ==
    IF strs = <<>> THEN <<>>
    ELSE IF Len(strs) = 1 THEN strs[1]
    ELSE strs[1] \o sep \o join(Tail(strs), sep)

---------------------------------------------------------------------------
(* Display strings: FEntry::to_str and the styling it uses *)

Colorize(name, code) ==
    <<ESC, "[", "3", code, "m">> \o name \o <<ESC, "[", "0", "m">>

_get_name_and_suffix(fe) ==
    CASE fe.ftype = "FileExec"      -> [name |-> Colorize(fe.name, "2"), suffix |-> <<>>]
      [] fe.ftype = "File"          -> [name |-> Colorize(fe.name, "7"), suffix |-> <<>>]
      [] fe.ftype = "Other"         -> [name |-> Colorize(fe.name, "7"), suffix |-> <<>>]
      [] fe.ftype = "Dir"           -> [name |-> Colorize(fe.name, "4"), suffix |-> <<"/">>]
      [] fe.ftype = "Symlink"       -> [name |-> Colorize(fe.name, "6"), suffix |-> <<"@">>]
      [] fe.ftype = "BrokenSymlink" -> [name |-> Colorize(fe.name, "1"), suffix |-> <<"!">>]

get_styled_name(fe, suf) ==
    LET ns == _get_name_and_suffix(fe)
    IN  IF suf THEN ns.name \o ns.suffix ELSE ns.name

get_colorless_name(fe, suf) ==
    LET ns == _get_name_and_suffix(fe)
    IN  IF suf THEN fe.name \o ns.suffix ELSE fe.name

to_str(fe, color, quoted) ==
    IF quoted THEN <<"\"">> \o fe.name \o <<"\"">>
    ELSE IF color = "Standart" THEN get_styled_name(fe, TRUE)
    ELSE get_colorless_name(fe, TRUE)

---------------------------------------------------------------------------
(* usize arithmetic *)

\* a <= b on usize values given by their representatives
ULe(a, b) == IF (a < 0) = (b < 0) THEN a <= b ELSE b < 0

UMax(a, b) == IF ULe(a, b) THEN b ELSE a

SetMax(S) == CHOOSE m \in S : \A x \in S : x <= m

div_ceil(a, b) == (a + b - 1) \div b

RECURSIVE SumSeq(_)
SumSeq(s) == IF s = <<>> THEN 0 ELSE s[1] + SumSeq(Tail(s))

\* names[idx].len().checked_sub(9).unwrap_or(names[idx].len())
checked_width(name) == IF Len(name) >= 9 THEN Len(name) - 9 ELSE Len(name)

---------------------------------------------------------------------------
(* calculate_column_widths *)

\* the inner loop "for row in 0..rows" of one column, from `row` on
RECURSIVE column_fold(_, _, _, _, _)
column_fold(nms, nrows, col, row, acc) ==
    IF row >= nrows THEN acc
    ELSE LET idx == col * nrows + row
         IN  column_fold(nms, nrows, col, row + 1,
                 IF idx < Len(nms) THEN UMax(acc, checked_width(nms[idx + 1])) ELSE acc)

\* mutant: entries indexed row-major (idx = row * cols + col)
calculate_column_widths_rowmajor(nms, nrows) ==
    LET total_items == Len(nms)
        cols == div_ceil(total_items, nrows)
        W(c) == {checked_width(nms[idx + 1]) :
                    idx \in {i \in 0..(total_items - 1) : i % cols = c}}
    IN  [c \in 1..cols |-> SetMax(W(c - 1) \cup {0})]

calculate_column_widths(nms, nrows) ==
    LET total_items == Len(nms)
        cols == div_ceil(total_items, nrows)
    IN  [c \in 1..cols |-> column_fold(nms, nrows, c - 1, 0, 0)]

---------------------------------------------------------------------------
(* calculate_optimal_layout *)

\* mutant: the inter-column gaps are left out of the total
layout_total_width_nogap(nms, nrows) ==
    SumSeq(calculate_column_widths(nms, nrows))

layout_total_width(nms, nrows) ==
    LET cols == div_ceil(Len(nms), nrows)
    IN  SumSeq(calculate_column_widths(nms, nrows)) + (cols - 1) * 2

\* the loop "for rows in 1..=total_items", from `nrows` on
RECURSIVE layout_search(_, _, _)
layout_search(nms, cols_avail, nrows) ==
    IF nrows > Len(nms) THEN Len(nms)
    ELSE IF ULe(layout_total_width(nms, nrows), cols_avail) THEN nrows
    ELSE layout_search(nms, cols_avail, nrows + 1)

\* mutant: a search that takes the width to be monotone in rows and walks
\* down from rows = count while the next smaller rows still fits
RECURSIVE layout_search_down(_, _, _)
layout_search_down(nms, cols_avail, nrows) ==
    IF nrows > 1 /\ ULe(layout_total_width(nms, nrows - 1), cols_avail)
    THEN layout_search_down(nms, cols_avail, nrows - 1)
    ELSE nrows

calculate_optimal_layout_monotone(nms, cols_avail) ==
    layout_search_down(nms, cols_avail, Len(nms))

calculate_optimal_layout(nms, cols_avail) == layout_search(nms, cols_avail, 1)

---------------------------------------------------------------------------
(* format_with_terminal_width *)

\* line 696: names.iter().map(|n| n.len() - 9).sum::<usize>() + names.len() - 1
fast_path_width(nms) ==
    SumSeq([i \in 1..Len(nms) |-> Len(nms[i]) - 9]) + Len(nms) - 1

\* whether line 696 overflows: some n.len() - 9 goes below zero
fast_path_overflows(nms) == \E i \in 1..Len(nms) : Len(nms[i]) < 9

\* line 719: col_widths[col] - (name.len() - 9)
padding_of(name, w) == w - (Len(name) - 9)

\* whether line 719 overflows for this entry
padding_overflows(name, w) == Len(name) < 9 \/ ~ULe(Len(name) - 9, w)

\* the loop "for col in 0..max_cols" of one row, from `col` on
RECURSIVE render_line(_, _, _, _, _, _)
render_line(nms, nrows, widths, row, col, line) ==
    LET max_cols == Len(widths)
        idx == col * nrows + row
    IN  IF col >= max_cols THEN line
        ELSE IF idx < Len(nms)
        THEN LET name == nms[idx + 1]
                 padding == padding_of(name, widths[col + 1])
             IN  render_line(nms, nrows, widths, row, col + 1,
                     line \o name \o
                     (IF col < max_cols - 1 THEN Spaces(padding + 2) ELSE <<>>))
        ELSE render_line(nms, nrows, widths, row, col + 1, line)

\* the loop "for row in 0..rows", from `row` on
RECURSIVE render_rows(_, _, _, _, _)
render_rows(nms, nrows, widths, row, out) ==
    IF row >= nrows THEN out
    ELSE render_rows(nms, nrows, widths, row + 1,
             out \o trim_end(render_line(nms, nrows, widths, row, 0, <<>>)) \o <<NL>>)

\* whether rendering the grid panics: line 719 under overflow checks, or
\* " ".repeat() of a count that wrapped (capacity overflow) without them
render_panics(nms, nrows, widths, overflow_checks) ==
    \E row \in 0..(nrows - 1), col \in 0..(Len(widths) - 1) :
        LET idx == col * nrows + row
        IN  /\ idx < Len(nms)
            /\ IF overflow_checks
               THEN padding_overflows(nms[idx + 1], widths[col + 1])
               ELSE /\ col < Len(widths) - 1
                    /\ padding_of(nms[idx + 1], widths[col + 1]) + 2 < 0

Result(o, r, w, out) == [outcome |-> o, rows |-> r, col_widths |-> w, output |-> out]

format_with_terminal_width(nms, width, overflow_checks) ==
    IF nms = <<>> THEN Result("empty", 0, <<>>, <<>>)
    ELSE IF overflow_checks /\ fast_path_overflows(nms)
    THEN Result("panic", 0, <<>>, <<>>)
    ELSE IF ULe(fast_path_width(nms), width)
    THEN Result("joined", 0, <<>>, join(nms, <<" ">>))
    ELSE LET r == calculate_optimal_layout(nms, width)
             w == calculate_column_widths(nms, r)
         IN  IF render_panics(nms, r, w, overflow_checks)
             THEN Result("panic", r, w, <<>>)
             ELSE Result("grid", r, w, trim_end(render_rows(nms, r, w, 0, <<>>)))

---------------------------------------------------------------------------
(* Fixed-width integers of Time.  A u64 is four 16-bit limbs, low limb     *)
(* first; a u32 is two.  i32 values and everything derived from them are   *)
(* plain integers (they fit).                                              *)

Limb == 2^16
SecondsPerDay == 86400

U64FromNat(n) == <<n % Limb, n \div Limb, 0, 0>>

\* `x as u64` for an i64 x of magnitude below 2^31 (two's complement)
I64AsU64(x) ==
    IF x >= 0 THEN U64FromNat(x)
    ELSE LET m == -x - 1
         IN  <<Limb - 1 - (m % Limb), Limb - 1 - (m \div Limb), Limb - 1, Limb - 1>>

\* `u as u32`: the low 32 bits
AsU32(u) == <<u[1], u[2]>>

\* `u as i32`: the low 32 bits, read as two's complement
AsI32(u) == IF u[2] < Limb \div 2 THEN u[1] + Limb * u[2] ELSE u[1] + Limb * (u[2] - Limb)

\* a + b on u64: the wrapped sum and whether it overflowed
U64Add(a, b) ==
    LET s1 == a[1] + b[1]
        s2 == a[2] + b[2] + (s1 \div Limb)
        s3 == a[3] + b[3] + (s2 \div Limb)
        s4 == a[4] + b[4] + (s3 \div Limb)
    IN  [val |-> <<s1 % Limb, s2 % Limb, s3 % Limb, s4 % Limb>>,
         overflow |-> s4 >= Limb]

\* a + b on u32: the wrapped sum and whether it overflowed
U32Add(a, b) ==
    LET s1 == a[1] + b[1]
        s2 == a[2] + b[2] + (s1 \div Limb)
    IN  [val |-> <<s1 % Limb, s2 % Limb>>, overflow |-> s2 >= Limb]

\* (x * 2^16) % 86400 for 0 <= x < 86400, in two steps that stay in range
ShiftLimbMod(x) == (((x * 256) % SecondsPerDay) * 256) % SecondsPerDay

\* u % 86400 for a u32 u
U32ModDay(u) == (u[1] + ShiftLimbMod(u[2])) % SecondsPerDay

\* a / b on i32 (b > 0): Rust's division truncates toward zero
TruncDiv(a, b) ==
    IF a >= 0 \/ a % b = 0 THEN a \div b ELSE (a \div b) + 1

---------------------------------------------------------------------------
(* Time *)

\* mutant: the 400-year rule is left out
is_leap_year_no400(year) == year % 4 = 0 /\ year % 100 # 0

is_leap_year(year) == (year % 4 = 0 /\ year % 100 # 0) \/ (year % 400 = 0)

get_days_in_year(year) == IF is_leap_year(year) THEN 366 ELSE 365

get_days_in_month(month, year) ==
    CASE month \in {1, 3, 5, 7, 8, 10, 12} -> 31
      [] month \in {4, 6, 9, 11} -> 30
      [] month = 2 -> IF is_leap_year(year) THEN 29 ELSE 28
      [] OTHER -> 0

\* lines 99-103: while days >= days_in_year
RECURSIVE years_forward(_, _)
years_forward(days, year) ==
    IF days >= get_days_in_year(year)
    THEN years_forward(days - get_days_in_year(year), year + 1)
    ELSE <<days, year>>

\* mutant: the backward loop for a negative day count is left out
years_backward_skipped(days, year) == <<days, year>>

\* lines 105-109: while days < 0
RECURSIVE years_backward(_, _)
years_backward(days, year) ==
    IF days < 0
    THEN years_backward(days + get_days_in_year(year - 1), year - 1)
    ELSE <<days, year>>

\* lines 114-122: while days >= days_in_month
RECURSIVE months_forward(_, _, _)
months_forward(days, month, year) ==
    IF days >= get_days_in_month(month, year)
    THEN LET d == days - get_days_in_month(month, year)
         IN  IF month + 1 > 12
             THEN months_forward(d, 1, year + 1)
             ELSE months_forward(d, month + 1, year)
    ELSE <<days, month, year>>

\* line 92: self.secs() + self.offset as u64
local_secs(s, off) == U64Add(s, I64AsU64(off))

to_calendar_date(s, off) ==
    LET days0 == TruncDiv(AsI32(local_secs(s, off).val), SecondsPerDay)
        f == years_forward(days0, 1970)
        b == years_backward(f[1], f[2])
        m == months_forward(b[1], 1, b[2])
    IN  <<m[3], m[2], m[1] + 1>>

\* line 129: self.secs() as u32 + self.offset as u32
local_secs32(s, off) == U32Add(AsU32(s), AsU32(I64AsU64(off)))

to_time_parts(s, off) ==
    LET t == U32ModDay(local_secs32(s, off).val)
    IN  <<t \div 3600, (t % 3600) \div 60, t % 60>>

months == <<"Jan", "Feb", "Mar", "Apr", "May", "Jun",
            "Jul", "Aug", "Sep", "Oct", "Nov", "Dec">>

\* {:>2}: right-aligned to width 2 with spaces
FmtRight2(n) == IF n < 10 THEN " " \o ToString(n) ELSE ToString(n)

\* {:02}: zero-padded to width 2
FmtZero2(n) == IF n < 10 THEN "0" \o ToString(n) ELSE ToString(n)

\* a % b on i32 (b > 0): Rust's remainder has the sign of the dividend
RemI32(a, b) == a - b * TruncDiv(a, b)

\* `x as u32` for an i32 x (two's complement)
I32AsU32(x) == AsU32(I64AsU64(x))

\* lines 83-85: the Zeller sum reduced with %
zeller_h(year, month, day) ==
    LET m == IF month < 3 THEN month + 12 ELSE month
        y == IF month < 3 THEN year - 1 ELSE year
        k == RemI32(y, 100)
        j == TruncDiv(y, 100)
    IN  RemI32(day + TruncDiv(13 * (m + 1), 5) + k + TruncDiv(k, 4)
                   + TruncDiv(j, 4) - 2 * j, 7)

_get_day_of_week(s, off) ==
    LET d == to_calendar_date(s, off)
        h == zeller_h(d[1], d[2], d[3])
    IN  I32AsU32(RemI32(h + 5, 7))

\* Time::format: the date, the time parts, the string, and whether an
\* addition overflowed (a panic under overflow checks)
format(s, off) ==
    LET d == to_calendar_date(s, off)
        t == to_time_parts(s, off)
        month_str == IF d[2] - 1 \in 0..11 THEN months[d[2]] ELSE "???"
    IN  [date |-> d,
         time_parts |-> t,
         overflows |-> local_secs(s, off).overflow \/ local_secs32(s, off).overflow,
         string |-> month_str \o " " \o FmtRight2(d[3]) \o " "
                       \o FmtZero2(t[1]) \o ":" \o FmtZero2(t[2])]

---------------------------------------------------------------------------
(* The layout specification: main's short listing *)

Letters == <<"a", "b", "c", "d", "e", "f", "g", "h", "i", "j", "k", "l", "m">>

\* the i-th directory entry in name order: names in a directory are distinct
FileName(i, len) == <<Letters[i]>> \o [j \in 1..(len - 1) |-> "x"]

FTypes == {"File", "Dir"}
DisplayColors == {"Standart", "Empty"}

LayoutIdle ==
    /\ names = <<>>
    /\ term_cols = 0
    /\ lpc = "idle"
    /\ outcome = "none"
    /\ rows = 0
    /\ col_widths = <<>>
    /\ output = <<>>

TimeIdle ==
    /\ secs = <<0, 0, 0, 0>>
    /\ offset = 0
    /\ tpc = "idle"
    /\ date = <<0, 0, 0>>
    /\ time_parts = <<0, 0, 0>>
    /\ formatted = ""
    /\ tpanic = FALSE
    /\ day_of_week = <<0, 0>>

\* main, lines 769-772: the names handed over are to_str of the sorted entries
LayoutInit ==
    /\ \E k \in 0..MaxEntries :
         \E lens \in [1..k -> 1..MaxNameLen], fts \in [1..k -> FTypes],
            color \in DisplayColors, quoted \in BOOLEAN :
            names = [i \in 1..k |->
                       to_str([name |-> FileName(i, lens[i]), ftype |-> fts[i]],
                              color, quoted)]
    /\ term_cols \in 0..MaxWidth
    /\ lpc = "start"
    /\ outcome = "none"
    /\ rows = 0
    /\ col_widths = <<>>
    /\ output = <<>>
    /\ TimeIdle

FormatWithTerminalWidth ==
    /\ lpc = "start"
    /\ \E overflow_checks \in BOOLEAN :
         \E res \in {format_with_terminal_width(names, term_cols, overflow_checks)} :
             /\ outcome' = res.outcome
             /\ rows' = res.rows
             /\ col_widths' = res.col_widths
             /\ output' = res.output
    /\ lpc' = "done"
    /\ UNCHANGED <<names, term_cols, tvars>>

LayoutNext == FormatWithTerminalWidth

LayoutSpec == LayoutInit /\ [][LayoutNext]_vars

---------------------------------------------------------------------------
(* Reference notions the layout claims are stated in.  They are written    *)
(* from the claims' words (index sets, maxima, sums), not from the loops   *)
(* of the code.                                                            *)

RECURSIVE SetSum(_, _)
SetSum(S, f) ==
    IF S = {} THEN 0
    ELSE LET x == CHOOSE y \in S : TRUE
         IN  f[x] + SetSum(S \ {x}, f)

\* the width the layout engine measures an entry by: its byte length less the
\* 9 bytes of a colour escape pair, or the byte length itself when shorter
VisibleWidth(name) == IF Len(name) < 9 THEN Len(name) ELSE Len(name) - 9

Count == Len(names)

\* ceil(count / r)
ColsFor(r) == CHOOSE c \in 0..Count : (c - 1) * r < Count /\ Count <= c * r

\* 0-based indices of the entries of column c under r rows
ColumnIndices(r, c) == {i \in 0..(Count - 1) : c * r <= i /\ i <= c * r + r - 1}

ColumnMax(r, c) == SetMax({VisibleWidth(names[i + 1]) : i \in ColumnIndices(r, c)})

GridWidth(r) ==
    LET ColW == [c \in 0..(ColsFor(r) - 1) |-> ColumnMax(r, c)]
    IN  SetSum(DOMAIN ColW, ColW) + (ColsFor(r) - 1) * 2

Feasible(r) == GridWidth(r) <= term_cols

SomeFeasible == \E r \in 1..Count : Feasible(r)

NaiveTotal ==
    LET W == [i \in 1..Count |-> VisibleWidth(names[i])]
    IN  SetSum(DOMAIN W, W) + (Count - 1)

GridReturned == lpc = "done" /\ outcome = "grid"

---------------------------------------------------------------------------
\* C1 (Minimality): when the grid search ran and some rows in [1, count] is
\* width-feasible, the returned rows is feasible and no smaller rows is; this
\* holds although feasibility is not monotone in rows.
C1_Minimality ==
    (GridReturned /\ SomeFeasible) =>
        /\ rows \in 1..Count
        /\ Feasible(rows)
        /\ \A r \in 1..(rows - 1) : ~Feasible(r)

\* a grid whose chosen rows is feasible while a larger rows is not
C1_Witness ==
    /\ GridReturned
    /\ rows >= 2
    /\ Feasible(rows)
    /\ \E r \in (rows + 1)..Count : ~Feasible(r)

\* C2 (Width bound): a returned grid's total width, sum(column_widths) +
\* (cols-1)*2 with cols = ceil(count/rows), is within the terminal width unless
\* rows = count was returned because no rows in [1, count] is feasible.
C2_WidthBound ==
    GridReturned =>
        \/ /\ Len(col_widths) = ColsFor(rows)
           /\ SumSeq(col_widths) + (ColsFor(rows) - 1) * 2 <= term_cols
           /\ GridWidth(rows) <= term_cols
        \/ /\ rows = Count
           /\ ~SomeFeasible

\* a grid of several columns that fits, on fewer rows than entries
C2_Witness ==
    /\ GridReturned
    /\ rows < Count
    /\ Len(col_widths) >= 2
    /\ SumSeq(col_widths) + (Len(col_widths) - 1) * 2 <= term_cols

---------------------------------------------------------------------------
\* the joined form: all entries on one line, one space between neighbours
JoinedForm ==
    LET Sep(i) == IF i < Count THEN <<" ">> ELSE <<>>
        F[i \in 0..Count] == IF i = 0 THEN <<>> ELSE F[i - 1] \o names[i] \o Sep(i)
    IN  F[Count]

\* C3 (Fast-path priority): for every list and width, an empty list gives the
\* empty string, and a list with sum(visible widths) + (count-1) <= width
\* gives the joined form, never a grid.
C3_FastPathPriority ==
    lpc = "done" =>
        /\ names = <<>> => (outcome = "empty" /\ output = <<>>)
        /\ (names # <<>> /\ NaiveTotal <= term_cols) =>
              (outcome # "panic" /\ output = JoinedForm)

\* C6 (Totality): for every non-empty list, strings shorter than 9 bytes
\* included, and every width, format_with_terminal_width returns a string, and
\* its fast-path width sum does not go below zero.
C6_LayoutTotal ==
    (lpc = "done" /\ names # <<>>) =>
        /\ outcome # "panic"
        /\ fast_path_width(names) >= 0

\* 0-based indices of the entries of output line r under `rows` rows
RowIndices(r) == {i \in 0..(Count - 1) : i % rows = r}

\* line r as claimed: its entries in index order, each one that another entry
\* follows on the line padded to its column's width and followed by 2 spaces
ClaimedLine(r) ==
    LET n == Cardinality(RowIndices(r))
        Entry(c) ==
            LET name == names[c * rows + r + 1]
            IN  IF c < n - 1
                THEN name \o Spaces(ColumnMax(rows, c) - VisibleWidth(name) + 2)
                ELSE name
        F[c \in 0..n] == IF c = 0 THEN <<>> ELSE F[c - 1] \o Entry(c - 1)
    IN  F[n]

ClaimedGrid ==
    LET F[r \in 0..rows] ==
            IF r = 0 THEN <<>>
            ELSE F[r - 1] \o ClaimedLine(r - 1) \o (IF r < rows THEN <<NL>> ELSE <<>>)
    IN  F[rows]

\* C7 (Grid rendering): whenever the fast path does not apply, the output is
\* the column-major grid of the chosen rows: line r holds the entries r, r+rows,
\* ... in order, every entry once, padded to the column width plus 2 spaces
\* where another entry follows; no line ends in whitespace; lines are joined by
\* one line break and nothing trails the last line.
C7_GridRendering ==
    (lpc = "done" /\ names # <<>> /\ outcome # "joined") =>
        /\ outcome = "grid"
        /\ output = ClaimedGrid
        /\ output # <<>> /\ ~IsWhitespace(output[Len(output)])
        /\ \A i \in 1..(Len(output) - 1) :
              output[i + 1] = NL => ~IsWhitespace(output[i])

\* C8 (Fallback): when no rows in [1, count] is width-feasible, layout returns
\* rows = count and the output is one unpadded entry per line.
C8_Fallback ==
    (lpc = "done" /\ names # <<>> /\ ~SomeFeasible) =>
        /\ outcome = "grid"
        /\ rows = Count
        /\ output = join(names, <<NL>>)

---------------------------------------------------------------------------
(* The time specification: one Time value is formatted *)

LastDay == 24836
MaxExtraDay == 2
MaxOffsetHours == 1
MaxHigh == 1

TimesOfDay == {0, 1800, 43200, 86399}

\* i32::MAX
MaxI32 == (Limb \div 2 - 1) * Limb + (Limb - 1)

TimeInit ==
    /\ LayoutIdle
    /\ tpc = "start"
    /\ date = <<0, 0, 0>>
    /\ time_parts = <<0, 0, 0>>
    /\ formatted = ""
    /\ tpanic = FALSE
    /\ day_of_week = <<0, 0>>
    /\ \/ \* every day from 1970-01-01 through LastDay, UTC
          /\ offset = 0
          /\ \E day \in 0..LastDay, tod \in TimesOfDay :
                secs = U64FromNat(day * SecondsPerDay + tod)
       \/ \* a few days with an offset, and second counts of 2^31 and above
          /\ \E h \in (-MaxOffsetHours)..MaxOffsetHours : offset = h * 3600
          /\ \E day \in 0..MaxExtraDay, tod \in TimesOfDay,
                b31 \in 0..1, high \in 0..MaxHigh, b63 \in 0..1 :
                LET low == U64FromNat(day * SecondsPerDay + tod)
                IN  secs = <<low[1], low[2] + b31 * (Limb \div 2),
                             high, b63 * (Limb \div 2)>>
       \/ \* bit 31 set over every day count the low 31 bits hold: the cast
          \* to i32 then gives every negative day index, back to 1901
          /\ offset = 0
          /\ \E day \in 0..(MaxI32 \div SecondsPerDay) :
                LET low == U64FromNat(day * SecondsPerDay)
                IN  secs = <<low[1], low[2] + Limb \div 2, 0, 0>>

Format ==
    /\ tpc = "start"
    /\ \E overflow_checks \in BOOLEAN :
         \E res \in {format(secs, offset)} :
             IF overflow_checks /\ res.overflows
             THEN /\ tpanic' = TRUE
                  /\ UNCHANGED <<date, time_parts, formatted>>
             ELSE /\ tpanic' = FALSE
                  /\ date' = res.date
                  /\ time_parts' = res.time_parts
                  /\ formatted' = res.string
    /\ tpc' = "done"
    /\ UNCHANGED <<secs, offset, day_of_week, lvars>>

GetDayOfWeek ==
    /\ tpc = "start"
    /\ \E overflow_checks \in BOOLEAN :
         IF overflow_checks /\ local_secs(secs, offset).overflow
         THEN /\ tpanic' = TRUE
              /\ UNCHANGED <<date, day_of_week>>
         ELSE /\ tpanic' = FALSE
              /\ date' = to_calendar_date(secs, offset)
              /\ day_of_week' = _get_day_of_week(secs, offset)
    /\ tpc' = "weekday"
    /\ UNCHANGED <<secs, offset, time_parts, formatted, lvars>>

TimeNext == Format \/ GetDayOfWeek

TimeSpec == TimeInit /\ [][TimeNext]_vars

---------------------------------------------------------------------------
(* Reference notions the time claims are stated in *)

\* the proleptic Gregorian date of day number z (days since 1970-01-01),
\* by the era / day-of-era computation, with no loop over years or months
CivilFromDays(z) ==
    LET zz == z + 719468
        era == zz \div 146097
        doe == zz - era * 146097
        yoe == (doe - doe \div 1460 + doe \div 36524 - doe \div 146096) \div 365
        doy == doe - (365 * yoe + yoe \div 4 - yoe \div 100)
        mp == (5 * doy + 2) \div 153
        d == doy - (153 * mp + 2) \div 5 + 1
        m == IF mp < 10 THEN mp + 3 ELSE mp - 9
        y == yoe + era * 400 + (IF m <= 2 THEN 1 ELSE 0)
    IN  <<y, m, d>>

\* the second count is below 2^31
SmallSecs == secs[3] = 0 /\ secs[4] = 0 /\ secs[2] < Limb \div 2

\* its value then
SecsValue == secs[1] + Limb * secs[2]

\* (hour, minute, second) of second-of-day t
ClockOf(t) == <<t \div 3600, (t % 3600) \div 60, t % 60>>

TimeDone == tpc = "done"

\* "Mon DD HH:MM" of a date <<y, m, d>> and a clock <<h, min, s>>
Rendered(d, c) ==
    months[d[2]] \o " " \o (IF d[3] < 10 THEN " " ELSE "") \o ToString(d[3]) \o " "
        \o (IF c[1] < 10 THEN "0" ELSE "") \o ToString(c[1]) \o ":"
        \o (IF c[2] < 10 THEN "0" ELSE "") \o ToString(c[2])

---------------------------------------------------------------------------
\* C4 (Calendar correctness): with offset 0, every second count from
\* 1970-01-01 on (below 2^31, so through 2037) is decomposed into its
\* Gregorian year, month and day and rendered with its clock time; epoch 0
\* gives "Jan  1 00:00", 2024-02-29 12:00:00 UTC gives "Feb 29 12:00" and
\* 2000-03-01 00:00:00 UTC gives "Mar  1 00:00".
C4_CalendarCorrect ==
    (TimeDone /\ offset = 0 /\ SmallSecs) =>
        /\ ~tpanic
        /\ date = CivilFromDays(SecsValue \div SecondsPerDay)
        /\ formatted = Rendered(CivilFromDays(SecsValue \div SecondsPerDay),
                                ClockOf(SecsValue % SecondsPerDay))
        /\ SecsValue = 0 => formatted = "Jan  1 00:00"
        /\ SecsValue = 1709208000 => formatted = "Feb 29 12:00"
        /\ SecsValue = 951868800 => formatted = "Mar  1 00:00"

\* the leap day of 2024 and the first of March 2000 have been formatted
C4_Witness ==
    /\ TimeDone /\ offset = 0 /\ SmallSecs
    /\ \/ SecsValue = 1709208000 /\ date = <<2024, 2, 29>> /\ formatted = "Feb 29 12:00"
       \/ SecsValue = 951868800 /\ date = <<2000, 3, 1>> /\ formatted = "Mar  1 00:00"

\* C5 (Offset application): when epoch + offset is negative, formatting does
\* not fail and gives the date floor((epoch+offset)/86400) days from
\* 1970-01-01 with the clock time (epoch+offset) mod 86400; render(1800, -3600)
\* is "Dec 31 23:30".
C5_OffsetApplication ==
    (TimeDone /\ SmallSecs /\ SecsValue + offset < 0) =>
        /\ ~tpanic
        /\ date = CivilFromDays((SecsValue + offset) \div SecondsPerDay)
        /\ time_parts = ClockOf((SecsValue + offset) % SecondsPerDay)
        /\ (SecsValue = 1800 /\ offset = -3600) => formatted = "Dec 31 23:30"

\* epoch % 86400 of the full 64-bit second count
EpochModDay ==
    (secs[1] + ShiftLimbMod(secs[2] % SecondsPerDay)
             + ShiftLimbMod(ShiftLimbMod(secs[3] % SecondsPerDay))
             + ShiftLimbMod(ShiftLimbMod(ShiftLimbMod(secs[4] % SecondsPerDay))))
        % SecondsPerDay

\* epoch + offset >= 0
LocalNonNegative == ~SmallSecs \/ SecsValue + offset >= 0

\* C10 (Time of day over the full range): for every 64-bit second count and
\* every offset with epoch + offset >= 0, to_time_parts returns the hour,
\* minute and second of (epoch + offset) mod 86400, with hour < 24 and
\* minute < 60.
C10_TimeOfDay ==
    (TimeDone /\ LocalNonNegative) =>
        /\ ~tpanic
        /\ time_parts = ClockOf((EpochModDay + offset) % SecondsPerDay)
        /\ time_parts[1] < 24 /\ time_parts[2] < 60

---------------------------------------------------------------------------
\* the day number (days since 1970-01-01) of the Gregorian date <<y, m, d>>
DaysFromCivil(dt) ==
    LET y == IF dt[2] <= 2 THEN dt[1] - 1 ELSE dt[1]
        era == y \div 400
        yoe == y - era * 400
        mp == IF dt[2] > 2 THEN dt[2] - 3 ELSE dt[2] + 9
        doy == (153 * mp + 2) \div 5 + dt[3] - 1
        doe == yoe * 365 + yoe \div 4 - yoe \div 100 + doy
    IN  era * 146097 + doe - 719468

\* the weekday of a day number with Monday = 0: 1970-01-01 (day 0) is a
\* Thursday, index 3, and each next day is one further modulo 7
WeekdayOf(z) == (z + 3) % 7

WeekdayReturned == tpc = "weekday" /\ ~tpanic

\* C11 (Day of week): for every date to_calendar_date produces,
\* _get_day_of_week returns an index in 0..6, the weekday of that date with
\* Monday = 0 (1970-01-01 is 3, each next day one further modulo 7), also
\* where the Zeller sum is negative before reduction.
C11_DayOfWeek ==
    WeekdayReturned =>
        /\ day_of_week[2] = 0
        /\ day_of_week[1] \in 0..6
        /\ day_of_week[1] = WeekdayOf(DaysFromCivil(date))

---------------------------------------------------------------------------
\* the length of month m of year y, from the day numbers of its first day and
\* of the first day of the month after it
MonthLength(y, m) ==
    DaysFromCivil(IF m = 12 THEN <<y + 1, 1, 1>> ELSE <<y, m + 1, 1>>)
        - DaysFromCivil(<<y, m, 1>>)

\* the day index line 93 computes: the wrapped sum cast to i32, over 86400
DayIndex == TruncDiv(AsI32(local_secs(secs, offset).val), SecondsPerDay)

\* C12 (Calendar range): for every second count and offset, whatever day index
\* the casts give, positive or negative, to_calendar_date ends with month in
\* 1..12 and day in 1..days_in_month(month, year); format then renders a month
\* of the 12-entry table, never the "???" placeholder.
C12_CalendarRange ==
    (tpc \in {"done", "weekday"} /\ ~tpanic) =>
        /\ date[2] \in 1..12
        /\ date[3] \in 1..MonthLength(date[1], date[2])
        /\ date[3] <= get_days_in_month(date[2], date[1])
        /\ tpc = "done" => formatted = Rendered(date, time_parts)

\* a negative day index has been decomposed, by the backward loop, into the
\* leap day of a year before 1970
C12_Witness ==
    /\ TimeDone /\ ~tpanic
    /\ DayIndex < 0
    /\ date[1] < 1970 /\ date[2] = 2 /\ date[3] = 29

===========================================================================
